---------------------------- MODULE Spec2Model ----------------------------
(***************************************************************************)
(* Task management core of the rCore teaching kernel:                      *)
(*   os/src/task/manager.rs    the FIFO ready queue (TaskManager)          *)
(*   os/src/syscall/process.rs the process system calls                    *)
(*   os/src/task/mod.rs        the round-robin task table (TaskManager)    *)
(* Each part has its own specification over the shared state:              *)
(*   SpecManager  add / fetch on the ready queue                           *)
(*   SpecMm       sys_mmap / sys_munmap (get_mm / get_unmap) on the        *)
(*                current task's address space                             *)
(*   SpecRr       run_first_task, suspend and exit on the task table       *)
(*   SpecProc     the process system calls of a kernel with a ready queue  *)
(*   SpecTrap     the same calls with the trap context of each task        *)
(*   SpecSpawn    exec and spawn, with the program images of the tasks     *)
(***************************************************************************)
EXTENDS Integers, Sequences, FiniteSets, TLC

VARIABLES
    TASK_MANAGER,   \* manager.rs: [ready_queue, sum]
    added,          \* history: every task handed to add, in call order
    fetched,        \* history: every result of fetch, in call order
    fetch_pre,      \* history: the ready queue just before the latest call
    mgr_op,         \* history: the latest manager call, "none" | "add" | "fetch"
    memory_set,     \* the current task's address space: [areas, page_table]
    mm_last,        \* history: the latest mmap/munmap call, its result and
                    \* the address space it was issued on
    inner,          \* task/mod.rs: TaskManagerInner [tasks, current_task]
    rr_state,       \* task/mod.rs: "boot" before run_first_task, "running",
                    \* "halted" after the panic of run_next_task
    now,            \* the timer, in ms
    rr_last,        \* history: the latest scheduling call on the task table,
                    \* the table it was issued on and what find_next_task
                    \* returned to it
    rr_fair,        \* history of the selections on the task table:
                    \* wait[i]: the decisions that have passed slot i over
                    \*   since it last became Ready;
                    \* since[t]: once t has run, per slot the number of times
                    \*   the slot was selected since t was last selected;
                    \* lap: since[t] of the slot t selected last, as it was
                    \*   when t was selected
    tcbs,           \* the process control blocks, by task
    trap_cx,        \* per task, x[10] (a0) of its saved trap context
    PROCESSOR,      \* [current]: the task on the processor, if any
    PID_ALLOCATOR,  \* [current, recycled]
    panicked,       \* a kernel assertion has failed
    sys_last,       \* history: the latest process system call, its result
                    \* and the kernel state it was issued on
    reaped,         \* history: the <<task, pid>> pairs waitpid has reaped
    prio_hist       \* history: per task, the argument of its latest
                    \* set_priority call with an argument >= 2, if any

mgr_hist == <<added, fetched, fetch_pre, mgr_op>>
mgr_vars == <<TASK_MANAGER, added, fetched, fetch_pre, mgr_op>>
mm_vars == <<memory_set, mm_last>>
rr_vars == <<inner, rr_state, now, rr_last, rr_fair>>
proc_vars == <<tcbs, trap_cx, PROCESSOR, PID_ALLOCATOR, panicked, sys_last, reaped,
               prio_hist>>

vars == <<TASK_MANAGER, added, fetched, fetch_pre, mgr_op, memory_set, mm_last,
          inner, rr_state, now, rr_last, rr_fair, tcbs, trap_cx, PROCESSOR, PID_ALLOCATOR, panicked,
          sys_last, reaped, prio_hist>>

(***************************************************************************)
(* Bounds of the model.                                                    *)
(***************************************************************************)
MaxTasks == 3
MaxAdds == 4
MaxFetches == 5
NumPages == 2       \* virtual pages 0 .. NumPages-1 of the address space
MaxAreas == 3       \* VMA records per address space
num_app == 3        \* tasks of the task table (loader::get_num_app)
MaxTime == 2        \* the timer counts 0 .. MaxTime

TaskIds == 0 .. (MaxTasks - 1)

Max(S) == CHOOSE x \in S : \A y \in S : y <= x
Min(S) == CHOOSE x \in S : \A y \in S : x <= y

\* Option<T>: None is the empty sequence, Some(x) the one-element sequence
None == <<>>
Some(x) == <<x>>
unwrap(o) == o[1]

(***************************************************************************)
(* manager.rs: the FIFO TaskManager                                        *)
(***************************************************************************)

\* TaskManager::new
TaskManager_new == [ready_queue |-> <<>>, sum |-> 0]

\* the commented-out add_front: push_front instead of push_back
add_front(tm, task) ==
    [ready_queue |-> <<task>> \o tm.ready_queue, sum |-> tm.sum + 1]

\* TaskManager::add: ready_queue.push_back(task); sum += 1
add(tm, task) ==
    [ready_queue |-> Append(tm.ready_queue, task), sum |-> tm.sum + 1]

\* fetch that decrements sum without the test sum != 0
fetch_unguarded(tm) ==
    IF tm.ready_queue = <<>>
    THEN [tm |-> [ready_queue |-> <<>>, sum |-> tm.sum - 1], ret |-> None]
    ELSE [tm |-> [ready_queue |-> Tail(tm.ready_queue), sum |-> tm.sum - 1],
          ret |-> Some(Head(tm.ready_queue))]

\* TaskManager::fetch: if sum != 0 { sum -= 1 }; ready_queue.pop_front()
fetch(tm) ==
    LET sum1 == IF tm.sum # 0 THEN tm.sum - 1 ELSE tm.sum
    IN  IF tm.ready_queue = <<>>
        THEN [tm |-> [ready_queue |-> <<>>, sum |-> sum1], ret |-> None]
        ELSE [tm |-> [ready_queue |-> Tail(tm.ready_queue), sum |-> sum1],
              ret |-> Some(Head(tm.ready_queue))]

\* TaskManager::get_task_sum_in_ready
get_task_sum_in_ready(tm) == tm.sum

\* add_task(task): TASK_MANAGER.exclusive_access().add(task)
AddTask(task) ==
    /\ Len(added) < MaxAdds
    /\ TASK_MANAGER' = add(TASK_MANAGER, task)
    /\ added' = Append(added, task)
    /\ fetch_pre' = TASK_MANAGER.ready_queue
    /\ mgr_op' = "add"
    /\ UNCHANGED <<fetched, mm_vars, rr_vars, proc_vars>>

\* fetch_task(): TASK_MANAGER.exclusive_access().fetch()
FetchTask ==
    /\ Len(fetched) < MaxFetches
    /\ TASK_MANAGER' = fetch(TASK_MANAGER).tm
    /\ fetched' = Append(fetched, fetch(TASK_MANAGER).ret)
    /\ fetch_pre' = TASK_MANAGER.ready_queue
    /\ mgr_op' = "fetch"
    /\ UNCHANGED <<added, mm_vars, rr_vars, proc_vars>>

(***************************************************************************)
(* The address space (mm::MemorySet, mm::MapArea, mm::PageTable), as far   *)
(* as sys_mmap and sys_munmap use it.  A page-table entry is its flag      *)
(* bits; 0 is the empty entry.  Physical frames are not modelled.          *)
(***************************************************************************)
PAGE_SIZE == 4096
\* MapPermission bits R, W, X, U and PTEFlags::V
MapPermission_R == 2
MapPermission_W == 4
MapPermission_X == 8
MapPermission_U == 16
PTEFlags_V == 1

VPNs == 0 .. (NumPages - 1)

\* VirtAddr::floor and VirtAddr::ceil
floor(va) == va \div PAGE_SIZE
ceil(va) == (va + PAGE_SIZE - 1) \div PAGE_SIZE

\* VPNRange::new(start, end): the pages start .. end-1
VPNRange(start_vpn, end_vpn) == {vpn \in VPNs : start_vpn <= vpn /\ vpn < end_vpn}

\* MemorySet::translate(vpn): the entry of vpn, if its leaf table exists.
\* All modelled pages lie in the leaf table of the loader's first segment.
translate(ms, vpn) ==
    IF vpn \in DOMAIN ms.page_table
    THEN [is_some |-> TRUE, bits |-> ms.page_table[vpn]]
    ELSE [is_some |-> FALSE, bits |-> 0]

\* MemorySet::insert_framed_area(start_va, end_va, permission):
\* push(MapArea::new(start_va, end_va, Framed, permission)): maps every page
\* of [floor(start_va), ceil(end_va)) and appends the area
insert_framed_area(ms, start_va, end_va, permission) ==
    LET area == [start |-> floor(start_va), end |-> ceil(end_va),
                 map_perm |-> permission]
    IN  [areas |-> Append(ms.areas, area),
         page_table |->
            [vpn \in DOMAIN ms.page_table |->
                IF vpn \in VPNRange(area.start, area.end)
                THEN permission + PTEFlags_V
                ELSE ms.page_table[vpn]]]

\* MapArea::unmap(page_table): clears the entry of every page of the area
unmap(area, page_table) ==
    [vpn \in DOMAIN page_table |->
        IF vpn \in VPNRange(area.start, area.end) THEN 0 ELSE page_table[vpn]]

\* Vec::remove(id), id counted from 0
remove(seq, id) ==
    [i \in 1 .. (Len(seq) - 1) |-> IF i <= id THEN seq[i] ELSE seq[i + 1]]

\* MapPermission::from_bits((port as u8) << 1), then set(U, true)
mmap_permission(port) ==
    LET bits == port * 2
    IN  IF (bits \div MapPermission_U) % 2 = 1 THEN bits ELSE bits + MapPermission_U

\* the pages of the request that are mapped: translate(vpn) is Some and its
\* bits are not 0
mapped_in_range(ms, start, len) ==
    {vpn \in VPNRange(floor(start), ceil(start + len)) :
        translate(ms, vpn).is_some /\ translate(ms, vpn).bits # 0}

\* sys_mmap with the port test lost: port 0 and port 4 reach the insertion
sys_mmap_any_port(ms, start, len, port) ==
    IF start % PAGE_SIZE # 0 THEN [ret |-> -1, ms |-> ms]
    ELSE IF mapped_in_range(ms, start, len) # {} THEN [ret |-> -1, ms |-> ms]
    ELSE [ret |-> 0,
          ms |-> insert_framed_area(ms, start, start + len, mmap_permission(port))]

\* sys_mmap without the loop that tests the pages of the range
sys_mmap_no_test(ms, start, len, port) ==
    IF start % PAGE_SIZE # 0 THEN [ret |-> -1, ms |-> ms]
    ELSE IF port # 1 /\ port # 2 /\ port # 3 THEN [ret |-> -1, ms |-> ms]
    ELSE [ret |-> 0,
          ms |-> insert_framed_area(ms, start, start + len, mmap_permission(port))]

\* sys_mmap(_start, _len, _port)
sys_mmap(ms, start, len, port) ==
    IF start % PAGE_SIZE # 0 THEN [ret |-> -1, ms |-> ms]
    ELSE IF port # 1 /\ port # 2 /\ port # 3 THEN [ret |-> -1, ms |-> ms]
    ELSE IF mapped_in_range(ms, start, len) # {} THEN [ret |-> -1, ms |-> ms]
    ELSE [ret |-> 0,
          ms |-> insert_framed_area(ms, start, start + len, mmap_permission(port))]

\* matching on the start page alone, the end of the range not compared
matching_start_only(ms, start, len) ==
    {i \in 0 .. (Len(ms.areas) - 1) : ms.areas[i + 1].start = floor(start)}

\* the indexes (from 0) of the areas whose bounds equal the requested range
matching(ms, start, len) ==
    {i \in 0 .. (Len(ms.areas) - 1) :
        /\ ms.areas[i + 1].start = floor(start)
        /\ ms.areas[i + 1].end = ceil(start + len)}

\* sys_munmap that removes the area record and forgets to unmap its pages
sys_munmap_keep_pages(ms, start, len) ==
    IF start % PAGE_SIZE # 0 THEN [ret |-> -1, ms |-> ms]
    ELSE IF matching(ms, start, len) = {} THEN [ret |-> -1, ms |-> ms]
    ELSE LET id == Max(matching(ms, start, len))
         IN  [ret |-> 0,
              ms |-> [areas |-> remove(ms.areas, id), page_table |-> ms.page_table]]

\* sys_munmap(_start, _len): the loop keeps the last matching index
sys_munmap(ms, start, len) ==
    IF start % PAGE_SIZE # 0 THEN [ret |-> -1, ms |-> ms]
    ELSE IF matching(ms, start, len) = {} THEN [ret |-> -1, ms |-> ms]
    ELSE LET id == Max(matching(ms, start, len))
         IN  [ret |-> 0,
              ms |-> [areas |-> remove(ms.areas, id),
                      page_table |-> unmap(ms.areas[id + 1], ms.page_table)]]

\* TaskManager::get_mm (task/mod.rs): the same steps on tasks[cur].memory_set
get_mm(ms, start, len, port) ==
    IF start % PAGE_SIZE # 0 THEN [ret |-> -1, ms |-> ms]
    ELSE IF port # 1 /\ port # 2 /\ port # 3 THEN [ret |-> -1, ms |-> ms]
    ELSE IF mapped_in_range(ms, start, len) # {} THEN [ret |-> -1, ms |-> ms]
    ELSE [ret |-> 0,
          ms |-> insert_framed_area(ms, start, start + len, mmap_permission(port))]

\* get_unmap that removes the area record without the call of unmap
get_unmap_keep_pages(ms, start, len) ==
    IF start % PAGE_SIZE # 0 THEN [ret |-> -1, ms |-> ms]
    ELSE IF matching(ms, start, len) = {} THEN [ret |-> -1, ms |-> ms]
    ELSE LET id == Max(matching(ms, start, len))
         IN  [ret |-> 0,
              ms |-> [areas |-> remove(ms.areas, id), page_table |-> ms.page_table]]

\* TaskManager::get_unmap (task/mod.rs)
get_unmap(ms, start, len) ==
    IF start % PAGE_SIZE # 0 THEN [ret |-> -1, ms |-> ms]
    ELSE IF matching(ms, start, len) = {} THEN [ret |-> -1, ms |-> ms]
    ELSE LET id == Max(matching(ms, start, len))
         IN  [ret |-> 0,
              ms |-> [areas |-> remove(ms.areas, id),
                      page_table |-> unmap(ms.areas[id + 1], ms.page_table)]]

\* the arguments of the calls: every page-aligned start and one unaligned
\* start; the lengths 0, one byte, one page and two pages; the three valid
\* ports and the invalid ports next to them
Starts == {p * PAGE_SIZE : p \in VPNs} \cup {PAGE_SIZE + 1}
Lens == {0, 1, PAGE_SIZE, 2 * PAGE_SIZE}
Ports == {0, 1, 2, 3, 4}
InRange(start, len) == ceil(start + len) <= NumPages

\* One call, with result r.  The history keeps the call, its result, the
\* address space it was issued on (pre) and, when the preceding call was a
\* successful mmap of the same start and len (and port, for an mmap), the
\* address space that mmap was issued on (before).
MmCall(op, start, len, port, r) ==
    LET follows ==
            /\ mm_last.op = "mmap" /\ mm_last.ret = 0
            /\ mm_last.start = start /\ mm_last.len = len
            /\ (op = "mmap" => mm_last.port = port)
    IN  /\ InRange(start, len)
        /\ Len(r.ms.areas) <= MaxAreas
        /\ memory_set' = r.ms
        /\ mm_last' = [op |-> op, start |-> start, len |-> len, port |-> port,
                       ret |-> r.ret, pre |-> memory_set, follows |-> follows,
                       before |-> IF follows THEN mm_last.pre ELSE memory_set]

SysMmap(start, len, port) ==
    /\ MmCall("mmap", start, len, port, sys_mmap(memory_set, start, len, port))
    /\ UNCHANGED <<mgr_vars, rr_vars, proc_vars>>

SysMunmap(start, len) ==
    /\ MmCall("munmap", start, len, 0, sys_munmap(memory_set, start, len))
    /\ UNCHANGED <<mgr_vars, rr_vars, proc_vars>>

GetMm(start, len, port) ==
    /\ MmCall("mmap", start, len, port, get_mm(memory_set, start, len, port))
    /\ UNCHANGED <<mgr_vars, rr_vars, proc_vars>>

GetUnmap(start, len) ==
    /\ MmCall("munmap", start, len, 0, get_unmap(memory_set, start, len))
    /\ UNCHANGED <<mgr_vars, rr_vars, proc_vars>>

\* the address space of a loaded task: a loader segment on page 0 and the
\* heap area at page 1, empty or grown by one page
InitialMemorySets ==
    {[areas |-> <<[start |-> 0, end |-> 1,
                   map_perm |-> MapPermission_R + MapPermission_X + MapPermission_U],
                  [start |-> 1, end |-> 1 + heap,
                   map_perm |-> MapPermission_R + MapPermission_W + MapPermission_U]>>,
      page_table |->
          [vpn \in VPNs |->
              IF vpn = 0
              THEN MapPermission_R + MapPermission_X + MapPermission_U + PTEFlags_V
              ELSE IF vpn = 1 /\ heap = 1
              THEN MapPermission_R + MapPermission_W + MapPermission_U + PTEFlags_V
              ELSE 0]] : heap \in {0, 1}}

\* the task has just been loaded (its heap is empty), or has grown its heap
MmInitOf(heaps) ==
    /\ memory_set \in {ms \in InitialMemorySets : ms.areas[2].end - 1 \in heaps}
    /\ mm_last = [op |-> "none", start |-> 0, len |-> 0, port |-> 0, ret |-> 0,
                  pre |-> memory_set, follows |-> FALSE, before |-> memory_set]

MmInit == MmInitOf({0})

NextMm ==
    \/ \E start \in Starts, len \in Lens, port \in Ports : SysMmap(start, len, port)
    \/ \E start \in Starts, len \in Lens : SysMunmap(start, len)
    \/ \E start \in Starts, len \in Lens, port \in Ports : GetMm(start, len, port)
    \/ \E start \in Starts, len \in Lens : GetUnmap(start, len)

(***************************************************************************)
(* task/mod.rs: the task table scanned round-robin                         *)
(***************************************************************************)
AppIds == 0 .. (num_app - 1)

\* lazy_static TASK_MANAGER: num_app tasks, each as TaskControlBlock::new
\* leaves it (Ready), current_task 0
TaskManagerInner_new ==
    [tasks |-> [i \in AppIds |-> [task_status |-> "Ready", start_time |-> 0]],
     current_task |-> 0]

\* TaskManager::run_first_task: tasks[0] becomes Running, start_time is set
run_first_task(in, time) ==
    [in EXCEPT !.tasks[0] = [task_status |-> "Running", start_time |-> time]]

\* mark_current_suspended that leaves the status as it is
mark_current_suspended_skip(in) == in

\* TaskManager::mark_current_suspended
mark_current_suspended(in) ==
    [in EXCEPT !.tasks[in.current_task].task_status = "Ready"]

\* TaskManager::mark_current_exited
mark_current_exited(in) ==
    [in EXCEPT !.tasks[in.current_task].task_status = "Exited"]

\* find_next_task that scans from slot 0 instead of the slot after current
find_next_task_from_zero(in) ==
    LET ready == {i \in AppIds : in.tasks[i].task_status = "Ready"}
    IN  IF ready = {} THEN None ELSE Some(Min(ready))

\* find_next_task that starts the scan at the current slot
find_next_task_current_first(in) ==
    LET ready == {k \in 0 .. (num_app - 1) :
                     in.tasks[(in.current_task + k) % num_app].task_status = "Ready"}
    IN  IF ready = {} THEN None
        ELSE Some((in.current_task + Min(ready)) % num_app)

\* find_next_task that takes the first slot that is not Running, whatever
\* its status
find_next_task_not_running(in) ==
    LET cand == {k \in 1 .. num_app :
                    in.tasks[(in.current_task + k) % num_app].task_status # "Running"}
    IN  IF cand = {} THEN None
        ELSE Some((in.current_task + Min(cand)) % num_app)

\* TaskManager::find_next_task: the first Ready slot among
\* current+1 .. current+num_app, each taken modulo num_app
find_next_task(in) ==
    LET ready == {k \in 1 .. num_app :
                     in.tasks[(in.current_task + k) % num_app].task_status = "Ready"}
    IN  IF ready = {} THEN None
        ELSE Some((in.current_task + Min(ready)) % num_app)

\* run_next_task that panics when the task found is the current one
run_next_task_no_self(in, time) ==
    IF find_next_task(in) # None /\ find_next_task(in) # Some(in.current_task)
    THEN LET next == unwrap(find_next_task(in))
         IN  [panic |-> FALSE,
              inner |-> [tasks |-> [in.tasks EXCEPT
                                       ![next] = [task_status |-> "Running",
                                                  start_time |-> time]],
                         current_task |-> next]]
    ELSE [panic |-> TRUE, inner |-> in]

\* run_next_task that does not assign start_time
run_next_task_keep_time(in, time) ==
    IF find_next_task(in) # None
    THEN LET next == unwrap(find_next_task(in))
         IN  [panic |-> FALSE,
              inner |-> [in EXCEPT !.tasks[next].task_status = "Running",
                                   !.current_task = next]]
    ELSE [panic |-> TRUE, inner |-> in]

\* TaskManager::run_next_task: switch to the task found, or panic
\* ("All applications completed!")
run_next_task(in, time) ==
    IF find_next_task(in) # None
    THEN LET next == unwrap(find_next_task(in))
         IN  [panic |-> FALSE,
              inner |-> [tasks |-> [in.tasks EXCEPT
                                       ![next] = [task_status |-> "Running",
                                                  start_time |-> time]],
                         current_task |-> next]]
    ELSE [panic |-> TRUE, inner |-> in]

\* suspend_current_and_run_next()
suspend_current_and_run_next(in, time) ==
    run_next_task(mark_current_suspended(in), time)

\* exit_current_and_run_next()
exit_current_and_run_next(in, time) ==
    run_next_task(mark_current_exited(in), time)

\* the history after a call on table pre that has selected slot next (the
\* call is a scheduling decision unless it is run_first_task), and after a
\* decision that has found no slot
Selected(pre, next, decision) ==
    [wait |-> [i \in AppIds |->
                  IF i # next /\ pre.tasks[i].task_status = "Ready"
                  THEN Min({num_app, rr_fair.wait[i] + (IF decision THEN 1 ELSE 0)})
                  ELSE 0],
     since |-> [t \in AppIds |->
                  IF t = next THEN Some([j \in AppIds |-> 0])
                  ELSE IF rr_fair.since[t] = None THEN None
                  ELSE Some([unwrap(rr_fair.since[t]) EXCEPT
                               ![next] = Min({num_app, @ + 1})])],
     lap |-> rr_fair.since[next]]
NoneSelected == [rr_fair EXCEPT !.lap = None]

RunFirstTask ==
    /\ rr_state = "boot"
    /\ inner' = run_first_task(inner, now)
    /\ rr_state' = "running"
    /\ rr_last' = [op |-> "first", pre |-> inner, found |-> None, time |-> now]
    /\ rr_fair' = Selected(inner, 0, FALSE)
    /\ UNCHANGED <<now, mgr_vars, mm_vars, proc_vars>>

SuspendCurrentAndRunNext ==
    /\ rr_state = "running"
    /\ inner' = suspend_current_and_run_next(inner, now).inner
    /\ rr_state' = IF suspend_current_and_run_next(inner, now).panic
                   THEN "halted" ELSE "running"
    /\ rr_last' = [op |-> "suspend", pre |-> inner,
                   found |-> find_next_task(mark_current_suspended(inner)),
                   time |-> now]
    /\ rr_fair' = IF suspend_current_and_run_next(inner, now).panic
                  THEN NoneSelected
                  ELSE Selected(inner,
                                suspend_current_and_run_next(inner, now).inner.current_task,
                                TRUE)
    /\ UNCHANGED <<now, mgr_vars, mm_vars, proc_vars>>

ExitCurrentAndRunNext ==
    /\ rr_state = "running"
    /\ inner' = exit_current_and_run_next(inner, now).inner
    /\ rr_state' = IF exit_current_and_run_next(inner, now).panic
                   THEN "halted" ELSE "running"
    /\ rr_last' = [op |-> "exit", pre |-> inner,
                   found |-> find_next_task(mark_current_exited(inner)),
                   time |-> now]
    /\ rr_fair' = IF exit_current_and_run_next(inner, now).panic
                  THEN NoneSelected
                  ELSE Selected(inner,
                                exit_current_and_run_next(inner, now).inner.current_task,
                                TRUE)
    /\ UNCHANGED <<now, mgr_vars, mm_vars, proc_vars>>

\* the timer advances
Tick ==
    /\ now < MaxTime
    /\ now' = now + 1
    /\ UNCHANGED <<inner, rr_state, rr_last, rr_fair, mgr_vars, mm_vars, proc_vars>>

RrInit ==
    /\ inner = TaskManagerInner_new
    /\ rr_state = "boot"
    /\ now = 0
    /\ rr_last = [op |-> "none", pre |-> inner, found |-> None, time |-> 0]
    /\ rr_fair = [wait |-> [i \in AppIds |-> 0],
                  since |-> [t \in AppIds |-> None],
                  lap |-> None]

NextRr ==
    \/ RunFirstTask
    \/ SuspendCurrentAndRunNext
    \/ ExitCurrentAndRunNext
    \/ Tick

(***************************************************************************)
(* syscall/process.rs: the process system calls, on the process control    *)
(* blocks, the processor and the FIFO ready queue.  TaskControlBlock,      *)
(* the pid allocator, the processor and the scheduling functions they      *)
(* call are modelled from the design (sections 3, 4.2 and 4.4).            *)
(***************************************************************************)
INITPROC == 0
DEFAULT_PRIORITY == 16

\* a task that has not been created, and one that has been deallocated
Unborn ==
    [life |-> "unborn", pid |-> 0, task_status |-> "Ready", parent |-> None,
     children |-> <<>>, exit_code |-> 0, task_priority |-> DEFAULT_PRIORITY,
     image |-> "none"]
Dropped == [Unborn EXCEPT !.life = "dropped"]

\* the executable images registered with the loader, by name
Apps == {"initproc", "usertests"}

\* get_app_data_by_name(path)
get_app_data_by_name(path) == IF path \in Apps THEN Some(path) ELSE None

\* TaskControlBlock::new / fork: a Ready task with the default priority,
\* whose address space holds the image data
TaskControlBlock_new(pid, parent, data) ==
    [life |-> "live", pid |-> pid, task_status |-> "Ready", parent |-> parent,
     children |-> <<>>, exit_code |-> 0, task_priority |-> DEFAULT_PRIORITY,
     image |-> data]

\* pid_alloc(): a recycled pid if there is one, else the next fresh one
pid_alloc(pa) ==
    IF pa.recycled # <<>>
    THEN [pid |-> pa.recycled[Len(pa.recycled)],
          pa |-> [pa EXCEPT !.recycled = SubSeq(@, 1, Len(@) - 1)]]
    ELSE [pid |-> pa.current, pa |-> [pa EXCEPT !.current = @ + 1]]

\* PidHandle::drop: the pid is recycled
pid_dealloc(pa, pid) == [pa EXCEPT !.recycled = Append(@, pid)]

\* the kernel state the system calls work on
Kernel ==
    [tcbs |-> tcbs, current |-> PROCESSOR.current, tm |-> TASK_MANAGER,
     pid_allocator |-> PID_ALLOCATOR, trap_cx |-> trap_cx]

\* trap entry: the user registers are saved, x[10] holds the first argument
trap_entry(k, a0) == [k EXCEPT !.trap_cx[unwrap(k.current)] = a0]

\* current_task(): the task on the processor
current_task(k) == k.current

\* TaskControlBlock::getpid, TaskControlBlockInner::is_zombie
getpid(k, task) == k.tcbs[task].pid
is_zombie(k, task) == k.tcbs[task].task_status = "Zombie"

\* Arc::strong_count of a child just taken out of its parent's children
\* list: the local reference, the ready queue's and the processor's
strong_count(k, task) ==
    1 + Cardinality({i \in 1 .. Len(k.tm.ready_queue) : k.tm.ready_queue[i] = task})
      + (IF k.current = Some(task) THEN 1 ELSE 0)

\* TaskControlBlock::fork: a new Ready task with a new pid, whose parent is
\* the forking task and which is pushed to the parent's children; its
\* address space, with the trap context in it, is a copy of the parent's
fork(k, parent) ==
    LET child == Min({t \in TaskIds : k.tcbs[t].life = "unborn"})
        a == pid_alloc(k.pid_allocator)
    IN  [child |-> child,
         k |-> [k EXCEPT
                  !.pid_allocator = a.pa,
                  !.trap_cx[child] = k.trap_cx[parent],
                  !.tcbs = [@ EXCEPT
                              ![child] = TaskControlBlock_new(a.pid, Some(parent),
                                                              k.tcbs[parent].image),
                              ![parent].children = Append(@, child)]]]

\* TaskControlBlock::exec(data): the address space and the trap context of
\* the task are rebuilt from the image; pid, parent and children stay
exec(k, task, data) ==
    [k EXCEPT !.tcbs[task].image = data, !.trap_cx[task] = 0]

\* TaskControlBlock::span(data): a new Ready task with a new pid and an
\* address space built from the image, whose parent is the calling task
\* and which is pushed to the parent's children
span(k, parent, data) ==
    LET child == Min({t \in TaskIds : k.tcbs[t].life = "unborn"})
        a == pid_alloc(k.pid_allocator)
    IN  [child |-> child,
         k |-> [k EXCEPT
                  !.pid_allocator = a.pa,
                  !.trap_cx[child] = 0,
                  !.tcbs = [@ EXCEPT
                              ![child] = TaskControlBlock_new(a.pid, Some(parent), data),
                              ![parent].children = Append(@, child)]]]

\* run_tasks (the idle loop): the head of the ready queue becomes Running
\* and current
run_tasks(k) ==
    LET f == fetch(k.tm)
    IN  IF f.ret = None THEN [k EXCEPT !.tm = f.tm, !.current = None]
        ELSE [k EXCEPT !.tm = f.tm,
                       !.current = f.ret,
                       !.tcbs[unwrap(f.ret)].task_status = "Running"]

\* suspend_current_and_run_next of the process kernel: the current task
\* becomes Ready and goes to the tail of the ready queue
proc_suspend_current_and_run_next(k) ==
    LET task == unwrap(k.current)
    IN  run_tasks([k EXCEPT !.tcbs[task].task_status = "Ready",
                            !.tm = add(@, task),
                            !.current = None])

\* exit_current_and_run_next(exit_code) of the process kernel: the current
\* task becomes a Zombie with its exit code, its children go to initproc
proc_exit_current_and_run_next(k, exit_code) ==
    LET task == unwrap(k.current)
        kids == k.tcbs[task].children
    IN  run_tasks([k EXCEPT
            !.current = None,
            !.tcbs = [t \in TaskIds |->
                IF t = task
                THEN [@[t] EXCEPT !.task_status = "Zombie",
                                  !.exit_code = exit_code,
                                  !.children = <<>>]
                ELSE IF t = INITPROC
                THEN [@[t] EXCEPT !.children = @ \o kids]
                ELSE IF \E i \in 1 .. Len(kids) : kids[i] = t
                THEN [@[t] EXCEPT !.parent = Some(INITPROC)]
                ELSE @[t]]])

\* a system call's result: the value returned, the value written through
\* the pointer argument (if any), whether the kernel panicked, the state
Result(ret, written, panic, k) ==
    [ret |-> ret, written |-> written, panic |-> panic, k |-> k]

\* the return path of a system call: the value returned is written to x[10]
\* of the trap context of the task that made the call
trap_return(r, task) == [r EXCEPT !.k.trap_cx[task] = r.ret]

\* sys_yield
sys_yield(k) == Result(0, None, FALSE, proc_suspend_current_and_run_next(k))

\* sys_exit that hands the exiting task to add_task, as a yield does
sys_exit_queued(k, exit_code) ==
    Result(0, None, FALSE,
           proc_exit_current_and_run_next([k EXCEPT !.tm = add(@, unwrap(k.current))],
                                          exit_code))

\* sys_exit(exit_code): no return to the caller
sys_exit(k, exit_code) ==
    Result(0, None, FALSE, proc_exit_current_and_run_next(k, exit_code))

\* sys_getpid
sys_getpid(k) == Result(getpid(k, unwrap(current_task(k))), None, FALSE, k)

\* sys_fork that leaves x[10] of the child as fork copied it
sys_fork_keep_a0(k) ==
    LET f == fork(k, unwrap(current_task(k)))
    IN  Result(getpid(f.k, f.child), None, FALSE,
               [f.k EXCEPT !.tm = add(@, f.child)])

\* sys_fork: x[10] of the child's trap context is set to 0, the child is
\* handed to add_task, the parent gets its pid
sys_fork(k) ==
    LET f == fork(k, unwrap(current_task(k)))
    IN  Result(getpid(f.k, f.child), None, FALSE,
               [f.k EXCEPT !.trap_cx[f.child] = 0,
                           !.tm = add(@, f.child)])

\* sys_exec that does not look the path up
sys_exec_any(k, path) == Result(0, None, FALSE, exec(k, unwrap(current_task(k)), path))

\* sys_exec(path)
sys_exec(k, path) ==
    IF get_app_data_by_name(path) # None
    THEN Result(0, None, FALSE,
                exec(k, unwrap(current_task(k)), unwrap(get_app_data_by_name(path))))
    ELSE Result(-1, None, FALSE, k)

\* sys_spawn(_path)
sys_spawn(k, path) ==
    IF get_app_data_by_name(path) # None
    THEN LET sp == span(k, unwrap(current_task(k)), unwrap(get_app_data_by_name(path)))
         IN  Result(getpid(sp.k, sp.child), None, FALSE,
                    [sp.k EXCEPT !.tm = add(@, sp.child)])
    ELSE Result(-1, None, FALSE, k)

\* the filter without the wildcard
pid_matches_exact(k, pid, p) == pid >= 0 /\ pid = getpid(k, p)

\* the filter of sys_waitpid: pid == -1 || pid as usize == p.getpid()
\* (a negative pid as usize is above every pid)
pid_matches(k, pid, p) == pid = -1 \/ (pid >= 0 /\ pid = getpid(k, p))

\* sys_waitpid that takes the last matching zombie instead of the first
sys_waitpid_last(k, pid) ==
    LET task == unwrap(current_task(k))
        children == k.tcbs[task].children
        zombies == {i \in 1 .. Len(children) :
                      is_zombie(k, children[i]) /\ pid_matches(k, pid, children[i])}
    IN  IF ~\E i \in 1 .. Len(children) : pid_matches(k, pid, children[i])
        THEN Result(-1, None, FALSE, k)
        ELSE IF zombies = {} THEN Result(-2, None, FALSE, k)
        ELSE LET idx == Max(zombies)
                 child == children[idx]
             IN  Result(getpid(k, child), Some(k.tcbs[child].exit_code), FALSE,
                     [k EXCEPT
                        !.tcbs[task].children = remove(@, idx - 1),
                        !.tcbs[child] = Dropped,
                        !.trap_cx[child] = 0,
                        !.pid_allocator = pid_dealloc(@, getpid(k, child))])

\* sys_waitpid(pid, exit_code_ptr)
sys_waitpid(k, pid) ==
    LET task == unwrap(current_task(k))
        children == k.tcbs[task].children
        zombies == {i \in 1 .. Len(children) :
                      is_zombie(k, children[i]) /\ pid_matches(k, pid, children[i])}
    IN  IF ~\E i \in 1 .. Len(children) : pid_matches(k, pid, children[i])
        THEN Result(-1, None, FALSE, k)
        ELSE IF zombies = {} THEN Result(-2, None, FALSE, k)
        ELSE LET idx == Min(zombies)
                 child == children[idx]
                 removed == [k EXCEPT !.tcbs[task].children = remove(@, idx - 1)]
             IN  IF strong_count(removed, child) # 1
                 THEN Result(0, None, TRUE, removed)
                 ELSE Result(getpid(k, child), Some(k.tcbs[child].exit_code), FALSE,
                         [removed EXCEPT
                            !.tcbs[child] = Dropped,
                            !.trap_cx[child] = 0,
                            !.pid_allocator = pid_dealloc(@, getpid(k, child))])

\* sys_set_priority with the test off by one (_prio < 1)
sys_set_priority_lt(k, prio) ==
    IF prio < 1 THEN Result(-1, None, FALSE, k)
    ELSE Result(prio, None, FALSE,
                [k EXCEPT !.tcbs[unwrap(current_task(k))].task_priority = prio])

\* sys_set_priority(_prio)
sys_set_priority(k, prio) ==
    IF prio <= 1 THEN Result(-1, None, FALSE, k)
    ELSE Result(prio, None, FALSE,
                [k EXCEPT !.tcbs[unwrap(current_task(k))].task_priority = prio])

\* the arguments of the calls
ExitCodes == {0, 3}
WaitPids == {-2, -1} \cup (0 .. (MaxTasks - 1))
Priorities == {-1, 1, 2, 5}
ForkA0s == {0, 5}
Paths == Apps \cup {"missing"}

\* the children of the current task of k, and those of them with pid p
ChildrenOf(k) ==
    {k.tcbs[unwrap(k.current)].children[i] :
        i \in 1 .. Len(k.tcbs[unwrap(k.current)].children)}
ChildOfPid(k, p) == {t \in ChildrenOf(k) : k.tcbs[t].pid = p}

\* One system call of the current task, with result r
SysCall(op, arg, r) ==
    /\ ~panicked
    /\ tcbs' = r.k.tcbs
    /\ trap_cx' = r.k.trap_cx
    /\ PROCESSOR' = [current |-> r.k.current]
    /\ TASK_MANAGER' = r.k.tm
    /\ PID_ALLOCATOR' = r.k.pid_allocator
    /\ panicked' = r.panic
    /\ sys_last' = [op |-> op, caller |-> unwrap(PROCESSOR.current), arg |-> arg,
                    ret |-> r.ret, written |-> r.written, pre |-> Kernel,
                    reaped |-> reaped]
    /\ reaped' = IF op = "waitpid" /\ r.written # None
                 THEN reaped \cup {<<t, r.ret>> : t \in ChildOfPid(Kernel, r.ret)}
                 ELSE reaped
    /\ prio_hist' = IF op = "set_priority" /\ arg >= 2
                    THEN [prio_hist EXCEPT ![unwrap(PROCESSOR.current)] = Some(arg)]
                    ELSE prio_hist
    /\ UNCHANGED <<mgr_hist, mm_vars, rr_vars>>

SysYield ==
    /\ PROCESSOR.current # None
    /\ SysCall("yield", 0, sys_yield(Kernel))

\* initproc does not exit
SysExit(exit_code) ==
    /\ PROCESSOR.current # None
    /\ PROCESSOR.current # Some(INITPROC)
    /\ SysCall("exit", exit_code, sys_exit(Kernel, exit_code))

SysGetpid ==
    /\ PROCESSOR.current # None
    /\ SysCall("getpid", 0, sys_getpid(Kernel))

SysFork ==
    /\ PROCESSOR.current # None
    /\ \E t \in TaskIds : tcbs[t].life = "unborn"
    /\ SysCall("fork", 0, sys_fork(Kernel))

SysWaitpid(pid) ==
    /\ PROCESSOR.current # None
    /\ SysCall("waitpid", pid, sys_waitpid(Kernel, pid))

SysSetPriority(prio) ==
    /\ PROCESSOR.current # None
    /\ SysCall("set_priority", prio, sys_set_priority(Kernel, prio))

SysExec(path) ==
    /\ PROCESSOR.current # None
    /\ SysCall("exec", path, sys_exec(Kernel, path))

SysSpawn(path) ==
    /\ PROCESSOR.current # None
    /\ \E t \in TaskIds : tcbs[t].life = "unborn"
    /\ SysCall("spawn", path, sys_spawn(Kernel, path))

\* The system calls as the trap handler runs them: the trap context of the
\* caller is saved with the first argument in x[10], the call is made and,
\* unless it is sys_exit, its result is written to x[10] of the caller.
\* fork takes no argument: a0 is whatever the user left in the register.
TrapFork(a0) ==
    /\ PROCESSOR.current # None
    /\ \E t \in TaskIds : tcbs[t].life = "unborn"
    /\ SysCall("fork", a0,
               trap_return(sys_fork(trap_entry(Kernel, a0)), unwrap(PROCESSOR.current)))

TrapYield ==
    /\ PROCESSOR.current # None
    /\ SysCall("yield", 0,
               trap_return(sys_yield(trap_entry(Kernel, 0)), unwrap(PROCESSOR.current)))

TrapExit(exit_code) ==
    /\ PROCESSOR.current # None
    /\ PROCESSOR.current # Some(INITPROC)
    /\ SysCall("exit", exit_code, sys_exit(trap_entry(Kernel, exit_code), exit_code))

TrapGetpid ==
    /\ PROCESSOR.current # None
    /\ SysCall("getpid", 0,
               trap_return(sys_getpid(trap_entry(Kernel, 0)), unwrap(PROCESSOR.current)))

TrapWaitpid(pid) ==
    /\ PROCESSOR.current # None
    /\ SysCall("waitpid", pid,
               trap_return(sys_waitpid(trap_entry(Kernel, pid), pid),
                           unwrap(PROCESSOR.current)))

\* initproc, with pid 0, is running; nothing else exists
ProcInit ==
    /\ tcbs = [t \in TaskIds |->
                  IF t = INITPROC
                  THEN [TaskControlBlock_new(0, None, "initproc")
                            EXCEPT !.task_status = "Running"]
                  ELSE Unborn]
    /\ trap_cx = [t \in TaskIds |-> 0]
    /\ PROCESSOR = [current |-> Some(INITPROC)]
    /\ PID_ALLOCATOR = [current |-> 1, recycled |-> <<>>]
    /\ panicked = FALSE
    /\ sys_last = [op |-> "none", caller |-> INITPROC, arg |-> 0, ret |-> 0,
                   written |-> None,
                   pre |-> [tcbs |-> tcbs, current |-> Some(INITPROC),
                            tm |-> TaskManager_new,
                            pid_allocator |-> [current |-> 1, recycled |-> <<>>],
                            trap_cx |-> trap_cx],
                   reaped |-> {}]
    /\ reaped = {}
    /\ prio_hist = [t \in TaskIds |-> None]

NextProc ==
    \/ SysYield
    \/ \E exit_code \in ExitCodes : SysExit(exit_code)
    \/ SysGetpid
    \/ SysFork
    \/ \E pid \in WaitPids : SysWaitpid(pid)
    \/ \E prio \in Priorities : SysSetPriority(prio)

NextTrap ==
    \/ \E a0 \in ForkA0s : TrapFork(a0)
    \/ TrapYield
    \/ \E exit_code \in ExitCodes : TrapExit(exit_code)
    \/ TrapGetpid
    \/ \E pid \in WaitPids : TrapWaitpid(pid)

\* exec and spawn, with the calls that schedule, end and reap the tasks
NextSpawn ==
    \/ \E path \in Paths : SysExec(path)
    \/ \E path \in Paths : SysSpawn(path)
    \/ SysFork
    \/ SysYield
    \/ \E exit_code \in ExitCodes : SysExit(exit_code)
    \/ SysWaitpid(-1)

MgrInit ==
    /\ TASK_MANAGER = TaskManager_new
    /\ added = <<>>
    /\ fetched = <<>>
    /\ fetch_pre = <<>>
    /\ mgr_op = "none"

Init == MgrInit /\ MmInit /\ RrInit /\ ProcInit

\* the system calls on the address space start from either heap
InitMm == MgrInit /\ MmInitOf({0, 1}) /\ RrInit /\ ProcInit

NextManager ==
    \/ \E task \in TaskIds : AddTask(task)
    \/ FetchTask

SpecManager == Init /\ [][NextManager]_vars

SpecMm == InitMm /\ [][NextMm]_vars

SpecRr == Init /\ [][NextRr]_vars

\* the scheduling calls alone, between two ticks of the timer: the first
\* task is started and the running task always eventually yields or exits
NextRrSched ==
    \/ RunFirstTask
    \/ SuspendCurrentAndRunNext
    \/ ExitCurrentAndRunNext

SpecRrFair ==
    /\ Init
    /\ [][NextRrSched]_vars
    /\ WF_vars(RunFirstTask)
    /\ WF_vars(SuspendCurrentAndRunNext \/ ExitCurrentAndRunNext)

SpecProc == Init /\ [][NextProc]_vars

SpecTrap == Init /\ [][NextTrap]_vars

SpecSpawn == Init /\ [][NextSpawn]_vars

(***************************************************************************)
(* C1: fetch returns the tasks in exactly the order they were added, each  *)
(* add is returned at most once, and fetch on an empty queue returns None  *)
(* and leaves the queue empty.                                             *)
(***************************************************************************)
RECURSIVE Unwrapped(_)
Unwrapped(rs) ==
    IF rs = <<>> THEN <<>>
    ELSE IF Head(rs) = None THEN Unwrapped(Tail(rs))
         ELSE <<unwrap(Head(rs))>> \o Unwrapped(Tail(rs))

Returned == Unwrapped(fetched)

C1_FifoOrder ==
    /\ Len(Returned) <= Len(added)
    /\ Returned = SubSeq(added, 1, Len(Returned))
    /\ TASK_MANAGER.ready_queue = SubSeq(added, Len(Returned) + 1, Len(added))
    /\ mgr_op = "fetch" =>
          IF fetch_pre = <<>>
          THEN fetched[Len(fetched)] = None /\ TASK_MANAGER.ready_queue = <<>>
          ELSE /\ fetched[Len(fetched)] = Some(Head(fetch_pre))
               /\ TASK_MANAGER.ready_queue = Tail(fetch_pre)
    /\ mgr_op = "add" =>
          /\ Len(TASK_MANAGER.ready_queue) = Len(fetch_pre) + 1
          /\ SubSeq(TASK_MANAGER.ready_queue, 1, Len(fetch_pre)) = fetch_pre
          /\ TASK_MANAGER.ready_queue[Len(fetch_pre) + 1] = added[Len(added)]

\* add(A); add(B); add(C) then four fetches: A, B, C, None
C1_Witness ==
    /\ Len(added) >= 3
    /\ Len(fetched) = 4
    /\ added[1] # added[2] /\ added[2] # added[3] /\ added[1] # added[3]
    /\ fetched = <<Some(added[1]), Some(added[2]), Some(added[3]), None>>

(***************************************************************************)
(* Claims about sys_mmap and sys_munmap, stated on the latest call.        *)
(***************************************************************************)
Aligned(start) == start % PAGE_SIZE = 0
ValidPort(port) == port \in {1, 2, 3}

\* the pages of the latest request, and those of them mapped when it was issued
ReqRange == VPNRange(floor(mm_last.start), ceil(mm_last.start + mm_last.len))
ReqMapped == {vpn \in ReqRange : mm_last.pre.page_table[vpn] # 0}
Mapped(ms) == {vpn \in DOMAIN ms.page_table : ms.page_table[vpn] # 0}

\* the latest request's page range is exactly the range of an area
ReqMatches ==
    \E i \in 1 .. Len(mm_last.pre.areas) :
        /\ mm_last.pre.areas[i].start = floor(mm_last.start)
        /\ mm_last.pre.areas[i].end = ceil(mm_last.start + mm_last.len)

(***************************************************************************)
(* C2: mmap of a page-aligned start with a valid port over a free range    *)
(* returns 0, and a munmap with the same start and len right after it      *)
(* returns 0 and leaves the VMA list and the page table as they were       *)
(* before the mmap.                                                        *)
(***************************************************************************)
C2_MmapMunmapRestores ==
    /\ (/\ mm_last.op = "mmap"
        /\ Aligned(mm_last.start) /\ ValidPort(mm_last.port)
        /\ ReqMapped = {})
       => mm_last.ret = 0
    /\ (mm_last.op = "munmap" /\ mm_last.follows)
       => /\ mm_last.ret = 0
          /\ memory_set.areas = mm_last.before.areas
          /\ Mapped(memory_set) = Mapped(mm_last.before)
          /\ memory_set.page_table = mm_last.before.page_table

\* a munmap right after the mmap of the same, non-empty, range
C2_Witness ==
    /\ mm_last.op = "munmap" /\ mm_last.follows
    /\ mm_last.len = 2 * PAGE_SIZE
    /\ Cardinality(Mapped(mm_last.pre)) = Cardinality(Mapped(memory_set)) + 2

(***************************************************************************)
(* C3: mmap over a range with an already mapped page returns -1 and        *)
(* leaves the address space unchanged; in particular repeating a           *)
(* successful mmap with the same arguments returns -1.                     *)
(***************************************************************************)
C3_MmapOverMappedFails ==
    /\ (mm_last.op = "mmap" /\ ReqMapped # {})
       => (mm_last.ret = -1 /\ memory_set = mm_last.pre)
    /\ (mm_last.op = "mmap" /\ mm_last.follows) => mm_last.ret = -1

\* C3, the part that holds: no mmap over a range with a mapped page
\* succeeds or changes the address space
C3_NoPartialMapping ==
    (mm_last.op = "mmap" /\ ReqMapped # {})
       => (mm_last.ret = -1 /\ memory_set = mm_last.pre)

(***************************************************************************)
(* C4: munmap of a range that is not exactly the range of an area returns  *)
(* -1 and leaves every area and every page-table entry unchanged.          *)
(***************************************************************************)
C4_MunmapNoMatchFails ==
    (mm_last.op = "munmap" /\ ~ReqMatches)
       => (mm_last.ret = -1 /\ memory_set = mm_last.pre)

\* a munmap of the first page of a two-page area, and one of two pages
\* starting at a one-page area
C4_Witness ==
    /\ mm_last.op = "munmap" /\ Aligned(mm_last.start) /\ ~ReqMatches
    /\ \E i \in 1 .. Len(mm_last.pre.areas) :
          LET a == mm_last.pre.areas[i]
          IN  /\ a.start = floor(mm_last.start)
              /\ a.end = a.start + 2
              /\ ceil(mm_last.start + mm_last.len) = a.start + 1
    /\ mm_last.ret = -1

(***************************************************************************)
(* C5: mmap with an unaligned start or a port outside {1, 2, 3}, and       *)
(* munmap with an unaligned start, return -1 and change nothing.           *)
(***************************************************************************)
C5_InvalidArgumentsFail ==
    /\ (mm_last.op = "mmap" /\ (~Aligned(mm_last.start) \/ ~ValidPort(mm_last.port)))
       => (mm_last.ret = -1 /\ memory_set = mm_last.pre)
    /\ (mm_last.op = "munmap" /\ ~Aligned(mm_last.start))
       => (mm_last.ret = -1 /\ memory_set = mm_last.pre)

\* an mmap of a free, aligned range with port 4
C5_Witness ==
    /\ mm_last.op = "mmap" /\ Aligned(mm_last.start) /\ mm_last.port = 4
    /\ mm_last.len = PAGE_SIZE /\ ReqMapped = {}
    /\ mm_last.ret = -1

(***************************************************************************)
(* C6: an mmap or munmap of length 0 at an aligned start returns a         *)
(* failure and inserts or removes no area.                                 *)
(***************************************************************************)
C6_ZeroLengthRejected ==
    (mm_last.op \in {"mmap", "munmap"} /\ mm_last.len = 0 /\ Aligned(mm_last.start))
       => (mm_last.ret = -1 /\ memory_set.areas = mm_last.pre.areas)

(***************************************************************************)
(* C10: once run_first_task has run and until the kernel halts, exactly    *)
(* one slot of the task table is Running (the slot current_task).          *)
(***************************************************************************)
RunningSlots == {i \in AppIds : inner.tasks[i].task_status = "Running"}

C10_OneRunning ==
    rr_state = "running" =>
        (Cardinality(RunningSlots) = 1 /\ RunningSlots = {inner.current_task})

\* after yields and an exit: slot 0 has exited, slot 1 waits, slot 2 runs
C10_Witness ==
    /\ rr_state = "running"
    /\ inner.current_task = 2
    /\ inner.tasks[0].task_status = "Exited"
    /\ inner.tasks[1].task_status = "Ready"
    /\ inner.tasks[2].task_status = "Running"
    /\ inner.tasks[1].start_time > 0

(***************************************************************************)
(* Claims about sys_waitpid and sys_set_priority, stated on the latest     *)
(* system call: Pre is the kernel state it was issued on.                  *)
(***************************************************************************)
Pre == sys_last.pre
Caller == sys_last.caller
PreChildren == Pre.tcbs[Caller].children

\* the positions of the caller's children that match the pid argument, and
\* those of them that are zombies
WaitMatches ==
    {i \in 1 .. Len(PreChildren) :
        sys_last.arg = -1 \/ Pre.tcbs[PreChildren[i]].pid = sys_last.arg}
WaitZombies ==
    {i \in WaitMatches : Pre.tcbs[PreChildren[i]].task_status = "Zombie"}

\* the caller is still on the processor and the ready queue is as it was
NotSuspended ==
    /\ PROCESSOR.current = Some(Caller)
    /\ tcbs[Caller].task_status = "Running"
    /\ TASK_MANAGER = Pre.tm

(***************************************************************************)
(* C7: waitpid returns -1 exactly when no child matches, -2 exactly when   *)
(* a child matches and no matching child is a zombie, and otherwise the    *)
(* pid of a matching zombie child, whose exit code it writes.              *)
(***************************************************************************)
C7_WaitpidOutcomes ==
    sys_last.op = "waitpid" =>
        /\ ~panicked
        /\ (sys_last.ret = -1) <=> (WaitMatches = {})
        /\ (sys_last.ret = -2) <=> (WaitMatches # {} /\ WaitZombies = {})
        /\ (sys_last.ret >= 0) <=> (WaitZombies # {})
        /\ sys_last.ret >= -2
        /\ sys_last.ret < 0 => sys_last.written = None
        /\ sys_last.ret >= 0 =>
              \E i \in WaitZombies :
                  /\ sys_last.ret = Pre.tcbs[PreChildren[i]].pid
                  /\ sys_last.written = Some(Pre.tcbs[PreChildren[i]].exit_code)

\* waitpid(-1) of a caller whose first child still runs and whose second
\* child has exited with code 3
C7_Witness ==
    /\ sys_last.op = "waitpid" /\ sys_last.arg = -1
    /\ Len(PreChildren) = 2
    /\ WaitZombies = {2}
    /\ sys_last.ret = Pre.tcbs[PreChildren[2]].pid
    /\ sys_last.written = Some(3)

(***************************************************************************)
(* C8: a successful waitpid removes the first matching zombie child, and   *)
(* only it, from the caller's children, keeping the order of the others;   *)
(* a waitpid that returns -1 or -2 leaves the children unchanged; the      *)
(* caller is never suspended.                                              *)
(***************************************************************************)
WaitpidFrame ==
    sys_last.op = "waitpid" =>
        /\ NotSuspended
        /\ sys_last.ret < 0 => tcbs = Pre.tcbs
        /\ sys_last.ret >= 0 =>
              LET idx == Min(WaitZombies)
              IN  /\ WaitZombies # {}
                  /\ sys_last.ret = Pre.tcbs[PreChildren[idx]].pid
                  /\ tcbs[Caller].children = remove(PreChildren, idx - 1)
                  /\ \A t \in TaskIds \ {Caller, PreChildren[idx]} :
                        tcbs[t] = Pre.tcbs[t]

\* C8 as stated: and the pid returned has not been reaped before
C8_ReapedPidNeverReturned ==
    /\ WaitpidFrame
    /\ (sys_last.op = "waitpid" /\ sys_last.ret >= 0)
       => ~\E r \in sys_last.reaped : r[2] = sys_last.ret

\* C8 as amended: and the child returned has not been reaped before (its
\* pid may have been, and then been allocated to this later child)
C8_ReapedChildNeverReturned ==
    /\ WaitpidFrame
    /\ (sys_last.op = "waitpid" /\ sys_last.ret >= 0)
       => ~\E r \in sys_last.reaped : r[1] \in ChildOfPid(Pre, sys_last.ret)

\* a waitpid of a caller with two children, both zombies: the first is
\* returned and removed, the second stays
C8_Witness ==
    /\ sys_last.op = "waitpid" /\ sys_last.ret >= 0
    /\ Len(PreChildren) = 2
    /\ WaitZombies = {1, 2}
    /\ sys_last.ret = Pre.tcbs[PreChildren[1]].pid
    /\ tcbs[Caller].children = <<PreChildren[2]>>

(***************************************************************************)
(* C9: set_priority(prio) with prio <= 1 returns -1 and changes nothing;   *)
(* with prio >= 2 it returns prio and stores it as the priority of the     *)
(* calling task only.  The stored priority of a task is the argument of    *)
(* its latest call with prio >= 2, or the default.                         *)
(***************************************************************************)
C9_SetPriority ==
    /\ sys_last.op = "set_priority" =>
          /\ NotSuspended
          /\ sys_last.arg <= 1 => (sys_last.ret = -1 /\ tcbs = Pre.tcbs)
          /\ sys_last.arg >= 2 =>
                /\ sys_last.ret = sys_last.arg
                /\ tcbs = [Pre.tcbs EXCEPT ![Caller].task_priority = sys_last.arg]
    /\ \A t \in TaskIds :
          tcbs[t].life = "live" =>
              tcbs[t].task_priority =
                  IF prio_hist[t] = None THEN DEFAULT_PRIORITY
                  ELSE unwrap(prio_hist[t])

\* set_priority(1) by a task that has set 5 before, another task having 2
C9_Witness ==
    /\ sys_last.op = "set_priority" /\ sys_last.arg = 1 /\ sys_last.ret = -1
    /\ tcbs[Caller].task_priority = 5
    /\ \E t \in TaskIds \ {Caller} :
          tcbs[t].life = "live" /\ tcbs[t].task_priority = 2

(***************************************************************************)
(* C11: the status of a slot of the task table changes only from Ready to  *)
(* Running, from Running to Ready and from Running to Exited; an Exited    *)
(* slot stays Exited and is never the current task of a running kernel     *)
(* again, so the call that exited it is never resumed.                     *)
(***************************************************************************)
StatusChanges ==
    {<<"Ready", "Running">>, <<"Running", "Ready">>, <<"Running", "Exited">>}

C11_StatusStep ==
    \A i \in AppIds :
        /\ inner'.tasks[i].task_status # inner.tasks[i].task_status
           => <<inner.tasks[i].task_status, inner'.tasks[i].task_status>>
                 \in StatusChanges
        /\ inner.tasks[i].task_status = "Exited"
           => /\ inner'.tasks[i].task_status = "Exited"
              /\ rr_state' = "running" => inner'.current_task # i

C11_ExitedIsTerminal ==
    /\ [](rr_state = "running"
            => inner.tasks[inner.current_task].task_status # "Exited")
    /\ [][C11_StatusStep]_vars

\* slots 0 and 1 have exited one after the other and slot 2 runs, at a
\* later time than slot 1 started
C11_Witness ==
    /\ rr_state = "running"
    /\ inner.tasks[0].task_status = "Exited"
    /\ inner.tasks[1].task_status = "Exited"
    /\ inner.tasks[2].task_status = "Running"
    /\ inner.current_task = 2
    /\ inner.tasks[2].start_time > inner.tasks[1].start_time

\* the same for the process control blocks: a live task goes from Ready to
\* Running, from Running to Ready and from Running to Zombie; a Zombie stays
\* one until waitpid drops it, and is neither queued nor on the processor
ProcStatusChanges ==
    {<<"Ready", "Running">>, <<"Running", "Ready">>, <<"Running", "Zombie">>}

C11_ProcStatusStep ==
    \A t \in TaskIds :
        /\ (/\ tcbs[t].life = "live" /\ tcbs'[t].life = "live"
            /\ tcbs'[t].task_status # tcbs[t].task_status)
           => <<tcbs[t].task_status, tcbs'[t].task_status>> \in ProcStatusChanges
        /\ (tcbs[t].life = "live" /\ tcbs[t].task_status = "Zombie")
           => /\ tcbs'[t].life = "dropped"
                 \/ (tcbs'[t].life = "live" /\ tcbs'[t].task_status = "Zombie")
              /\ PROCESSOR'.current # Some(t)
              /\ \A i \in 1 .. Len(TASK_MANAGER'.ready_queue) :
                    TASK_MANAGER'.ready_queue[i] # t
        /\ tcbs[t].life = "dropped" => tcbs'[t].life = "dropped"

C11_ZombieIsTerminal == [][C11_ProcStatusStep]_vars

(***************************************************************************)
(* Claims about the scheduling decisions on the task table, stated on the  *)
(* latest call: RrPre is the table it was issued on, RrMarked the table    *)
(* find_next_task saw (the current slot marked Ready or Exited).           *)
(***************************************************************************)
RrPre == rr_last.pre
RrMarked ==
    [RrPre EXCEPT !.tasks[RrPre.current_task].task_status =
                      IF rr_last.op = "suspend" THEN "Ready" ELSE "Exited"]
Decision == rr_last.op \in {"suspend", "exit"}

\* the slot scanned at step k = 1 .. num_app: current+1, ..., wrapping, the
\* current slot last
ScanSlot(k) == (RrPre.current_task + k) % num_app
ReadySteps == {k \in 1 .. num_app : RrMarked.tasks[ScanSlot(k)].task_status = "Ready"}

(***************************************************************************)
(* C12: find_next_task returns the first Ready slot in the order           *)
(* current+1, ..., wrapping modulo num_app, the current slot last; it      *)
(* returns None exactly when no slot is Ready.  A task that yields while   *)
(* it is the only Ready task is selected again.                            *)
(***************************************************************************)
C12_FindNextTask ==
    Decision =>
        /\ (rr_last.found = None) <=> (ReadySteps = {})
        /\ \A k \in ReadySteps :
              (\A j \in ReadySteps : k <= j) => rr_last.found = Some(ScanSlot(k))
        /\ ScanSlot(num_app) = RrPre.current_task
        /\ (/\ rr_last.op = "suspend"
            /\ \A i \in AppIds \ {RrPre.current_task} :
                  RrPre.tasks[i].task_status # "Ready")
           => /\ rr_last.found = Some(RrPre.current_task)
              /\ rr_state = "running"
              /\ inner.current_task = RrPre.current_task
              /\ inner.tasks[inner.current_task].task_status = "Running"

\* slot 2 yields while slot 0 is Ready and slot 1 has exited: the scan
\* wraps around to slot 0
C12_Witness ==
    /\ rr_last.op = "suspend"
    /\ RrPre.current_task = 2
    /\ RrPre.tasks[0].task_status = "Ready"
    /\ RrPre.tasks[1].task_status = "Exited"
    /\ rr_last.found = Some(0)
    /\ inner.current_task = 0

\* a task yields while it is the only Ready task and runs again
C12_WitnessAlone ==
    /\ rr_last.op = "suspend"
    /\ \A i \in AppIds \ {RrPre.current_task} : RrPre.tasks[i].task_status = "Exited"
    /\ rr_last.found = Some(RrPre.current_task)

(***************************************************************************)
(* C13: a scheduling decision that finds a task makes it Running, records  *)
(* the time as its start_time and makes it the current task; the outgoing  *)
(* task, unless it is the incoming one, is left Ready; no other slot       *)
(* changes.                                                                *)
(***************************************************************************)
Outgoing == RrPre.current_task
Incoming == unwrap(rr_last.found)

\* what every decision that finds a task does for the incoming task and
\* the slots not involved
IncomingRuns ==
    /\ rr_state = "running"
    /\ inner.current_task = Incoming
    /\ inner.tasks[Incoming] = [task_status |-> "Running", start_time |-> rr_last.time]
    /\ \A i \in AppIds \ {Outgoing, Incoming} : inner.tasks[i] = RrPre.tasks[i]
    /\ Outgoing # Incoming =>
          inner.tasks[Outgoing].start_time = RrPre.tasks[Outgoing].start_time

\* C13 as stated: the outgoing task is Ready after every decision
C13_OutgoingReady ==
    (Decision /\ rr_last.found # None) =>
        /\ IncomingRuns
        /\ Outgoing # Incoming => inner.tasks[Outgoing].task_status = "Ready"

\* C13 as amended: the outgoing task is Ready after a suspend and Exited
\* after an exit
C13_OutgoingReadyOrExited ==
    (Decision /\ rr_last.found # None) =>
        /\ IncomingRuns
        /\ Outgoing # Incoming =>
              inner.tasks[Outgoing].task_status =
                  IF rr_last.op = "suspend" THEN "Ready" ELSE "Exited"

\* slot 1 exits at time 2 while slot 0 has exited and slot 2, which has run
\* before, is Ready
C13_Witness ==
    /\ rr_last.op = "exit" /\ rr_last.time = 2
    /\ Outgoing = 1 /\ rr_last.found = Some(2)
    /\ RrPre.tasks[2].start_time = 1
    /\ inner.tasks[0].task_status = "Exited"
    /\ inner.tasks[1].task_status = "Exited"
    /\ inner.tasks[2] = [task_status |-> "Running", start_time |-> 2]

(***************************************************************************)
(* C14: fork creates exactly one task, the child: the parent's call        *)
(* returns the child's pid, x[10] of the child's trap context is 0, the    *)
(* child is appended once to the tail of the ready queue, and the parent   *)
(* is still the current, Running task.  A task that has just been          *)
(* switched in finds 0 in x[10].                                           *)
(***************************************************************************)
Live(tb) == {t \in TaskIds : tb[t].life = "live"}
InQueue(q, t) == {i \in 1 .. Len(q) : q[i] = t}

C14_Fork ==
    /\ sys_last.op = "fork" =>
          \E child \in TaskIds :
              /\ Pre.tcbs[child].life = "unborn"
              /\ Live(tcbs) = Live(Pre.tcbs) \cup {child}
              /\ tcbs[child].task_status = "Ready"
              /\ tcbs[child].parent = Some(Caller)
              /\ tcbs[Caller].children = Append(PreChildren, child)
              /\ \A t \in Live(Pre.tcbs) : tcbs[t].pid # tcbs[child].pid
              /\ sys_last.ret = tcbs[child].pid
              /\ sys_last.ret >= 0
              /\ trap_cx[Caller] = sys_last.ret
              /\ trap_cx[child] = 0
              /\ TASK_MANAGER.ready_queue = Append(Pre.tm.ready_queue, child)
              /\ Cardinality(InQueue(TASK_MANAGER.ready_queue, child)) = 1
              /\ PROCESSOR.current = Some(Caller)
              /\ tcbs[Caller].task_status = "Running"
              /\ \A t \in TaskIds \ {Caller, child} :
                    tcbs[t] = Pre.tcbs[t] /\ trap_cx[t] = Pre.trap_cx[t]
    /\ \A t \in TaskIds :
          (PROCESSOR.current = Some(t) /\ sys_last.op # "none" /\ Caller # t)
             => trap_cx[t] = 0

\* a task forks with 5 in a0 while it has a child already and another task
\* waits in the ready queue
C14_Witness ==
    /\ sys_last.op = "fork" /\ sys_last.arg = 5
    /\ Len(Pre.tm.ready_queue) = 1
    /\ Len(TASK_MANAGER.ready_queue) = 2
    /\ sys_last.ret > 0
    /\ trap_cx[Caller] = sys_last.ret
    /\ \E child \in TaskIds :
          /\ tcbs[child].life = "live" /\ tcbs[child].pid = sys_last.ret
          /\ trap_cx[child] = 0

\* the child of a fork with 5 in a0 runs for the first time, with 0 in x[10]
C14_WitnessChildRuns ==
    /\ sys_last.op = "yield"
    /\ PROCESSOR.current # None /\ PROCESSOR.current # Some(Caller)
    /\ tcbs[unwrap(PROCESSOR.current)].parent = Some(Caller)
    /\ trap_cx[unwrap(PROCESSOR.current)] = 0

(***************************************************************************)
(* Claims about the areas of the address space after any sequence of       *)
(* mmap and munmap calls.                                                  *)
(***************************************************************************)
AreaRange(a) == VPNRange(a.start, a.end)
AreasOf(ms, vpn) == {i \in 1 .. Len(ms.areas) : vpn \in AreaRange(ms.areas[i])}

(***************************************************************************)
(* C15: no virtual page belongs to the page range of two different VMA     *)
(* records of the address space.                                           *)
(***************************************************************************)
C15_NoOverlap ==
    /\ \A vpn \in VPNs : Cardinality(AreasOf(memory_set, vpn)) <= 1
    /\ \A i, j \in 1 .. Len(memory_set.areas) :
          i # j => AreaRange(memory_set.areas[i]) \cap AreaRange(memory_set.areas[j]) = {}

\* an mmap of pages 0 and 1 is refused while page 1 belongs to an area
\* that an earlier mmap has inserted
C15_Witness ==
    /\ mm_last.op = "mmap" /\ mm_last.ret = -1
    /\ mm_last.start = 0 /\ mm_last.len = 2 * PAGE_SIZE /\ ValidPort(mm_last.port)
    /\ Len(memory_set.areas) = 3
    /\ memory_set.areas[3].start = 1 /\ memory_set.areas[3].end = 2
    /\ memory_set.areas[3].map_perm = mmap_permission(1)

(***************************************************************************)
(* C16: a virtual page is mapped in the page table if and only if it lies  *)
(* in the range of exactly one VMA record; a successful munmap clears      *)
(* every entry of the range of the area it removes and no other entry.     *)
(***************************************************************************)
C16_InSync ==
    /\ \A vpn \in VPNs :
          (memory_set.page_table[vpn] # 0)
             <=> (Cardinality(AreasOf(memory_set, vpn)) = 1)
    /\ (mm_last.op = "munmap" /\ mm_last.ret = 0) =>
          /\ Len(memory_set.areas) = Len(mm_last.pre.areas) - 1
          /\ \A vpn \in ReqRange : memory_set.page_table[vpn] = 0
          /\ \A vpn \in VPNs \ ReqRange :
                memory_set.page_table[vpn] = mm_last.pre.page_table[vpn]

\* a munmap of page 1 alone, which an mmap had mapped, page 0 staying mapped
C16_Witness ==
    /\ mm_last.op = "munmap" /\ mm_last.ret = 0
    /\ mm_last.start = PAGE_SIZE /\ mm_last.len = PAGE_SIZE
    /\ mm_last.pre.page_table[1] = mmap_permission(3) + PTEFlags_V
    /\ memory_set.page_table[1] = 0
    /\ memory_set.page_table[0] # 0

(***************************************************************************)
(* C20: no two VMA records of the address space have the same start and    *)
(* end page, so a successful munmap has found exactly one matching record. *)
(***************************************************************************)
SameBounds(ms) ==
    {<<i, j>> \in (1 .. Len(ms.areas)) \X (1 .. Len(ms.areas)) :
        /\ i < j
        /\ ms.areas[i].start = ms.areas[j].start
        /\ ms.areas[i].end = ms.areas[j].end}

C20_UniqueBounds ==
    /\ SameBounds(memory_set) = {}
    /\ (mm_last.op = "munmap" /\ mm_last.ret = 0) =>
          Cardinality(matching(mm_last.pre, mm_last.start, mm_last.len)) = 1

\* C20 for the areas that hold a page: no two of them have the same bounds
C20_UniqueNonEmptyBounds ==
    \A p \in SameBounds(memory_set) : AreaRange(memory_set.areas[p[1]]) = {}

(***************************************************************************)
(* C17: exec(path) and spawn(path) return -1 when no image is registered   *)
(* under path and then change nothing.  On success exec returns 0, gives   *)
(* the caller the image and creates and queues no task; spawn returns the  *)
(* pid of the one task it creates, with the image, and appends that task   *)
(* to the ready queue.                                                     *)
(***************************************************************************)
Unchanged ==
    /\ tcbs = Pre.tcbs
    /\ TASK_MANAGER = Pre.tm
    /\ PROCESSOR.current = Pre.current
    /\ PID_ALLOCATOR = Pre.pid_allocator
    /\ trap_cx = Pre.trap_cx

C17_ExecSpawn ==
    /\ (sys_last.op \in {"exec", "spawn"} /\ sys_last.arg \notin Apps)
       => (sys_last.ret = -1 /\ Unchanged)
    /\ (sys_last.op = "exec" /\ sys_last.arg \in Apps)
       => /\ sys_last.ret = 0
          /\ tcbs = [Pre.tcbs EXCEPT ![Caller].image = sys_last.arg]
          /\ Live(tcbs) = Live(Pre.tcbs)
          /\ PID_ALLOCATOR = Pre.pid_allocator
          /\ NotSuspended
    /\ (sys_last.op = "spawn" /\ sys_last.arg \in Apps)
       => \E child \in TaskIds :
              /\ Pre.tcbs[child].life = "unborn"
              /\ Live(tcbs) = Live(Pre.tcbs) \cup {child}
              /\ \A t \in Live(Pre.tcbs) : tcbs[t].pid # tcbs[child].pid
              /\ sys_last.ret = tcbs[child].pid
              /\ tcbs[child] = TaskControlBlock_new(sys_last.ret, Some(Caller),
                                                    sys_last.arg)
              /\ tcbs[Caller] = [Pre.tcbs[Caller] EXCEPT
                                    !.children = Append(@, child)]
              /\ \A t \in TaskIds \ {Caller, child} : tcbs[t] = Pre.tcbs[t]
              /\ TASK_MANAGER.ready_queue = Append(Pre.tm.ready_queue, child)
              /\ Cardinality(InQueue(TASK_MANAGER.ready_queue, child)) = 1
              /\ PROCESSOR.current = Some(Caller)

\* spawn of an unregistered path by a task that runs usertests and has a
\* child, while another task is in the ready queue
C17_Witness ==
    /\ sys_last.op = "spawn" /\ sys_last.arg = "missing"
    /\ sys_last.ret = -1
    /\ Pre.tcbs[Caller].image = "usertests"
    /\ PreChildren # <<>>
    /\ Pre.tm.ready_queue # <<>>

\* a successful spawn and a successful exec
C17_WitnessSpawned ==
    /\ sys_last.op = "spawn" /\ sys_last.arg = "usertests" /\ sys_last.ret > 0
    /\ Len(TASK_MANAGER.ready_queue) = 2
C17_WitnessExeced ==
    /\ sys_last.op = "exec" /\ sys_last.arg = "usertests" /\ sys_last.ret = 0
    /\ Pre.tcbs[Caller].image = "initproc"
    /\ tcbs[Caller].image = "usertests"

(***************************************************************************)
(* C18: run_next_task halts the kernel ("All applications completed!")     *)
(* exactly when no slot is Ready at the decision: never while a slot is    *)
(* Ready, never on a yield, and always when the last task that had not     *)
(* exited exits.                                                           *)
(***************************************************************************)
C18_HaltsWhenNoneReady ==
    /\ Decision =>
          /\ (rr_state = "halted") <=> (ReadySteps = {})
          /\ rr_last.op = "suspend" => rr_state = "running"
          /\ (/\ rr_last.op = "exit"
              /\ \A i \in AppIds \ {Outgoing} : RrPre.tasks[i].task_status = "Exited")
             => rr_state = "halted"
    /\ rr_state = "halted" =>
          /\ rr_last.op = "exit"
          /\ \A i \in AppIds : inner.tasks[i].task_status = "Exited"
    /\ rr_state = "boot" => rr_last.op = "none"

\* the last task exits, at time 2, after it has yielded to itself
C18_Witness ==
    /\ rr_state = "halted"
    /\ rr_last.op = "exit" /\ rr_last.time = 2
    /\ Outgoing = 1
    /\ RrPre.tasks[1] = [task_status |-> "Running", start_time |-> 1]
    /\ \A i \in AppIds \ {1} : RrPre.tasks[i].task_status = "Exited"

(***************************************************************************)
(* C19: the assertion on the reference count in sys_waitpid never fails:   *)
(* the zombie child that waitpid takes from the children list is neither   *)
(* in the ready queue nor on the processor.  A Zombie is never in the      *)
(* ready queue; a task is queued exactly when it is Ready and on the       *)
(* processor exactly when it is Running.                                   *)
(***************************************************************************)
C19_StrongCountIsOne ==
    /\ ~panicked
    /\ (sys_last.op = "waitpid" /\ sys_last.ret >= 0) =>
          \A child \in ChildOfPid(Pre, sys_last.ret) :
              /\ InQueue(Pre.tm.ready_queue, child) = {}
              /\ Pre.current # Some(child)
              /\ strong_count(Pre, child) = 1
    /\ \A t \in Live(tcbs) :
          /\ tcbs[t].task_status = "Zombie" =>
                /\ InQueue(TASK_MANAGER.ready_queue, t) = {}
                /\ PROCESSOR.current # Some(t)
          /\ (tcbs[t].task_status = "Ready")
                <=> (Cardinality(InQueue(TASK_MANAGER.ready_queue, t)) = 1)
          /\ (tcbs[t].task_status = "Running") <=> (PROCESSOR.current = Some(t))
          /\ Cardinality(InQueue(TASK_MANAGER.ready_queue, t)) <= 1
    /\ \A i \in 1 .. Len(TASK_MANAGER.ready_queue) :
          TASK_MANAGER.ready_queue[i] \in Live(tcbs)

\* waitpid reaps a zombie child while its sibling waits in the ready queue
C19_Witness ==
    /\ sys_last.op = "waitpid" /\ sys_last.ret >= 0
    /\ Len(PreChildren) = 2
    /\ WaitZombies = {1}
    /\ Pre.tm.ready_queue = <<PreChildren[2]>>
    /\ tcbs[PreChildren[1]].life = "dropped"

(***************************************************************************)
(* C21: the counter of the FIFO task manager equals the length of the      *)
(* ready queue after every add and every fetch, a fetch on the empty       *)
(* queue included, and is never below 0.                                   *)
(***************************************************************************)
C21_SumIsQueueLength ==
    /\ get_task_sum_in_ready(TASK_MANAGER) = Len(TASK_MANAGER.ready_queue)
    /\ get_task_sum_in_ready(TASK_MANAGER) >= 0
    /\ mgr_op = "fetch" =>
          get_task_sum_in_ready(TASK_MANAGER) =
              IF fetch_pre = <<>> THEN 0 ELSE Len(fetch_pre) - 1
    /\ mgr_op = "add" => get_task_sum_in_ready(TASK_MANAGER) = Len(fetch_pre) + 1

\* two fetches on the empty queue, then two adds: the counter is 2
C21_Witness ==
    /\ Len(fetched) >= 2 /\ fetched[1] = None /\ fetched[2] = None
    /\ mgr_op = "add" /\ Len(added) = 2
    /\ get_task_sum_in_ready(TASK_MANAGER) = 2

(***************************************************************************)
(* C22: the round-robin scan starves no task.  A Ready slot is passed      *)
(* over by at most num_app - 2 decisions, so it runs after at most         *)
(* num_app - 1; when a slot is selected again, every other slot has been   *)
(* selected at most once since its last selection, and exactly once if it  *)
(* is still Ready; and if the running task always eventually yields or     *)
(* exits, every Ready slot eventually runs.                                *)
(***************************************************************************)
C22_Bounded ==
    /\ \A i \in AppIds :
          inner.tasks[i].task_status = "Ready" => rr_fair.wait[i] <= num_app - 2
    /\ (Decision /\ rr_last.found # None /\ rr_fair.lap # None) =>
          \A j \in AppIds \ {Incoming} :
              /\ unwrap(rr_fair.lap)[j] <= 1
              /\ inner.tasks[j].task_status = "Ready" => unwrap(rr_fair.lap)[j] = 1

C22_NoStarvation ==
    /\ []C22_Bounded
    /\ \A i \in AppIds :
          (inner.tasks[i].task_status = "Ready")
             ~> (inner.tasks[i].task_status = "Running")

\* slot 0 runs again after slots 1 and 2 have each run once and yielded;
\* slot 2 had been passed over once
C22_Witness ==
    /\ rr_last.op = "suspend" /\ rr_last.found = Some(0)
    /\ rr_fair.lap # None
    /\ unwrap(rr_fair.lap)[1] = 1 /\ unwrap(rr_fair.lap)[2] = 1
    /\ inner.tasks[1].task_status = "Ready"
    /\ inner.tasks[2].task_status = "Ready"
    /\ rr_fair.wait[1] = 1

=============================================================================
